---- MODULE Spec2Model ----
(***************************************************************************)
(* GPS track recording and cloud synchronisation engine of geo-snap-pro:   *)
(* the React hook useGpsTracking (src/src/hooks/useGpsTracking.ts, lines   *)
(* 1-536), its local session store (localStorage) and the remote           *)
(* track_logs table it pushes to.                                          *)
(*                                                                         *)
(* Execution model.  The hook runs on one JavaScript thread.  One action   *)
(* of this module is one callback turn of the event loop: the code from    *)
(* the entry of a handler (or from the resumption after an await that      *)
(* really suspends) up to its next suspension.  React applies the state    *)
(* updates of a turn in call order and re-renders before the next turn,    *)
(* so setTrackLog(updater) sees the latest state as prev, and the ref      *)
(* trackLogRef (lines 201, 206-208) equals the trackLog state at every     *)
(* turn boundary; the model keeps the one variable trackLog for both.      *)
(*                                                                         *)
(* Encoding.  null / undefined of a nullable object is NULL (the empty     *)
(* tuple).  An optional number or id (endTime, cloudId, projectId,         *)
(* userId) is 0 when undefined: 0 is falsy in the source's truthiness      *)
(* tests exactly as undefined is.  Date.now() is the logical clock: every  *)
(* reading advances it by one, so readings are distinct and increasing.    *)
(*                                                                         *)
(* Bounds.  A run holds at most MaxEvents handler invocations (calls of    *)
(* the hook's commands, position fixes and errors, debounce timer          *)
(* expiries, process restarts); the server's work and the resumptions of   *)
(* suspended calls are not counted and follow from them.  The platform     *)
(* holds at most MaxWatch position watches and at most MaxPending calls    *)
(* are suspended at a wake lock request or release.                        *)
(*                                                                         *)
(* The offline photo queue (the hook useOfflineSync, src/unnamed/part_012, *)
(* the IndexedDB store of src/src/lib/license.ts, lines 116-174, and the   *)
(* capture handlers of the pages Capture and Tracker) is studied by a      *)
(* second specification, SpecPhotos, over the same variables.  A run of    *)
(* it holds at most MaxPhotoEvents events (connectivity changes, mounts,   *)
(* manual syncs, captures), MaxPhotos captured photos and MaxDrains        *)
(* syncPhotos calls running at once.                                       *)
(***************************************************************************)
EXTENDS Integers, Sequences, FiniteSets, TLC

\* Bounds of the model (none is a constant of the program).
MaxEvents == 4
MaxWatch == 2
MaxPending == 1
MaxPhotoEvents == 4
MaxPhotos == 2
MaxDrains == 2

NULL == <<>>

\* The values the hook's arguments and startTracking's argument are drawn from.
UserIds == {0, 1}
HookProjectIds == {0}
ProjectIds == {0, 1}

VARIABLES
    userId,               \* hook argument userId (0: signed out)
    projectId,            \* hook argument projectId (0: undefined)
    geolocation,          \* whether navigator.geolocation exists
    wakeLockApi,          \* whether 'wakeLock' in navigator
    clock,                \* the last value Date.now() returned
    trackLog,             \* useState trackLog / trackLogRef.current
    isTracking,
    currentPosition,
    error,
    hasRecoveredSession,
    isSyncing,
    watchIdRef,           \* watchIdRef.current (0: null)
    watches,              \* the position watches the platform holds
    wakeLockRef,          \* whether wakeLockRef.current holds a sentinel
    syncTimeout,          \* the pending debounce timer: NULL or <<track>>
    startsPending,        \* startTracking calls suspended at await requestWakeLock()
    stopsPending,         \* stopTracking calls suspended at await releaseWakeLock()
    clearsPending,        \* clearTrackLog calls suspended at await stopTracking()
    store,                \* localStorage[STORAGE_KEY]: NULL or the JSON document
    inflight,             \* the pushes whose promise has not settled
    pushSeq,              \* pushes issued so far
    remote,               \* the rows of the remote track_logs table, by id
    events,               \* handler invocations so far
    appended,             \* history: what was appended to the active log
    lastSettled,          \* history: the push that settled last, and the time it did
    stopped,              \* history: stopTracking has completed and startTracking
                          \* has not been called since
    cleared,              \* history: clearTrackLog has completed and startTracking
                          \* has not been called since
    exported,             \* what the last exportTrack call reported and downloaded
    \* useOfflineSync, the capture pages and their stores
    online,               \* navigator.onLine
    isOnline,             \* useState isOnline
    photoSyncing,         \* useState isSyncing of useOfflineSync
    pendingCount,
    effectClosure,        \* the isOnline and isSyncing the mount effect's syncPhotos sees
    pendingPhotos,        \* the ids in the IndexedDB store 'pending-photos'
    photoRecords,         \* the rows of the remote photos table, in insert order
    drains,               \* the syncPhotos calls that have not returned
    drainSeq,             \* syncPhotos calls that got past the guard so far
    captureSeq,           \* captures that passed validation so far
    lastCapture,          \* history: the outcome of the last capture
    everQueued,           \* history: the ids ever added to 'pending-photos'
    lastDrain,            \* history: the outcome of the last finished syncPhotos
    photoEvents           \* handler invocations of the photo queue so far

gps == <<userId, projectId, geolocation, wakeLockApi, clock, trackLog, isTracking,
          currentPosition, error, hasRecoveredSession, isSyncing, watchIdRef,
          watches, wakeLockRef, syncTimeout, startsPending,
          stopsPending, clearsPending, store, inflight, pushSeq, remote,
          events, appended, lastSettled, stopped, cleared, exported>>

offline == <<online, isOnline, photoSyncing, pendingCount, effectClosure,
             pendingPhotos, photoRecords, drains, drainSeq, captureSeq,
             lastCapture, everQueued, lastDrain, photoEvents>>

vars == <<gps, offline>>

----------------------------------------------------------------------------
\* Data

LogKeys == {"id", "startTime", "endTime", "points", "photos", "cloudId", "projectId"}
OptionalKeys == {"endTime", "cloudId", "projectId"}

\* JSON.stringify of a TrackLog: a member whose value is undefined is left out.
JsonStringify(log) ==
    [k \in {key \in LogKeys : key \in OptionalKeys => log[key] # 0} |-> log[k]]

\* JSON.parse of a stored document: a member that is absent reads as undefined.
JsonParse(doc) ==
    [k \in LogKeys |-> IF k \in DOMAIN doc THEN doc[k] ELSE 0]

\* JSON.parse(JSON.stringify(array)) of an array of objects without undefined members.
JsonClone(array) ==
    [i \in 1..Len(array) |-> array[i]]

loadSession ==
    IF store # NULL THEN JsonParse(store) ELSE NULL

saveSession(log) ==
    IF log # NULL THEN JsonStringify(log) ELSE NULL

Abs(x) == IF x < 0 THEN -x ELSE x

\* The great-circle length of the path, in units of one clock tick of travel
\* along the equator (the device reports lat 0 and lng = the time of the fix).
RECURSIVE calculateTotalDistance(_)
calculateTotalDistance(points) ==
    IF Len(points) < 2 THEN 0
    ELSE calculateTotalDistance(SubSeq(points, 1, Len(points) - 1))
         + Abs(points[Len(points)].lng - points[Len(points) - 1].lng)

\* The row syncToCloud sends.
trackData(track) ==
    [user_id |-> userId,
     project_id |-> IF track.projectId # 0 THEN track.projectId ELSE projectId,
     track_id |-> track.id,
     start_time |-> track.startTime,
     end_time |-> track.endTime,
     points |-> JsonClone(track.points),
     photos |-> JsonClone(track.photos),
     distance_meters |-> calculateTotalDistance(track.points),
     point_count |-> Len(track.points),
     photo_count |-> Len(track.photos)]

IsPrefix(s, t) ==
    /\ Len(s) <= Len(t)
    /\ \A i \in 1..Len(s) : s[i] = t[i]

\* The photo queue in a run that studies the track recording alone.
photoQueueUnused ==
    /\ online = TRUE
    /\ isOnline = TRUE
    /\ photoSyncing = FALSE
    /\ pendingCount = 0
    /\ effectClosure = NULL
    /\ pendingPhotos = {}
    /\ photoRecords = <<>>
    /\ drains = {}
    /\ drainSeq = 0
    /\ captureSeq = 0
    /\ lastCapture = NULL
    /\ everQueued = {}
    /\ lastDrain = NULL
    /\ photoEvents = 0

----------------------------------------------------------------------------
\* Initial state: a fresh install (empty local store, empty remote table) with
\* the hook just constructed (useState / useRef initial values, lines 193-203;
\* the mount effect finds nothing to recover).

hookConstructed ==
    /\ clock = 0
    /\ trackLog = NULL
    /\ isTracking = FALSE
    /\ currentPosition = NULL
    /\ error = "null"
    /\ hasRecoveredSession = FALSE
    /\ isSyncing = FALSE
    /\ watchIdRef = 0
    /\ watches = {}
    /\ wakeLockRef = FALSE
    /\ syncTimeout = NULL
    /\ startsPending = 0
    /\ stopsPending = 0
    /\ clearsPending = 0
    /\ store = NULL
    /\ inflight = {}
    /\ pushSeq = 0
    /\ remote = <<>>
    /\ events = 0
    /\ appended = NULL
    /\ lastSettled = NULL
    /\ stopped = FALSE
    /\ cleared = FALSE
    /\ exported = NULL

Init ==
    /\ userId \in UserIds
    /\ projectId \in HookProjectIds
    /\ geolocation \in BOOLEAN
    /\ wakeLockApi \in BOOLEAN
    /\ hookConstructed
    /\ photoQueueUnused

----------------------------------------------------------------------------
\* One more handler invocation, within the bound.
event ==
    /\ events < MaxEvents
    /\ events' = events + 1

----------------------------------------------------------------------------
\* Cloud Sync Engine

\* The push syncToCloud(track) puts in flight (lines 216-246).  rid is the row
\* the request addresses (.eq('id', track.cloudId)), 0 for an insert until the
\* server has given the new row its id.  History fields: by (the caller),
\* assigned (the remote id the active log carries when the push is issued, if
\* it is the log pushed) and repeat (the push issued just before this one has
\* settled successfully and carried the same row).
newPush(track, by) ==
    [seq |-> pushSeq + 1,
     by |-> by,
     track |-> track,
     data |-> trackData(track),
     phase |-> "sent",
     rid |-> track.cloudId,
     assigned |-> IF trackLog # NULL /\ trackLog.id = track.id
                  THEN trackLog.cloudId ELSE 0,
     repeat |-> /\ lastSettled # NULL
                /\ lastSettled.seq = pushSeq
                /\ lastSettled.ok
                /\ lastSettled.data = trackData(track)]

\* syncToCloud up to its first await (lines 211-246).
syncToCloud(track, by) ==
    IF userId = 0
    THEN UNCHANGED <<inflight, pushSeq, isSyncing>>
    ELSE /\ inflight' = inflight \cup {newPush(track, by)}
         /\ pushSeq' = pushSeq + 1
         /\ isSyncing' = TRUE

\* { ...track, cloudId: data.id } (line 252).
withCloudId(track, id) ==
    [track EXCEPT !.cloudId = id]

\* The remote table after the server has run the request of push p: an insert
\* adds a row under a new id, an update overwrites the row it addresses.
\* latest is a history field: the highest-numbered push applied to the row.
serverApply(p) ==
    IF p.rid = 0
    THEN Append(remote, [data |-> p.data, latest |-> [seq |-> p.seq, data |-> p.data]])
    ELSE [remote EXCEPT ![p.rid] =
            [data |-> p.data,
             latest |-> IF p.seq > @.latest.seq
                        THEN [seq |-> p.seq, data |-> p.data]
                        ELSE @.latest]]

\* The server runs the request of an in-flight push (lines 234-237, 242-246).
ServerApply ==
    \E p \in inflight :
        /\ p.phase = "sent"
        /\ remote' = serverApply(p)
        /\ inflight' = (inflight \ {p}) \cup
               {[p EXCEPT !.phase = "applied",
                          !.rid = IF p.rid = 0 THEN Len(remote) + 1 ELSE p.rid]}
        /\ UNCHANGED <<offline, cleared, exported, userId, projectId, geolocation, wakeLockApi, clock, trackLog,
                       isTracking, currentPosition, error, hasRecoveredSession,
                       isSyncing, watchIdRef, watches, wakeLockRef,
                       syncTimeout, startsPending, stopsPending, clearsPending,
                       store, pushSeq, events, appended, lastSettled, stopped>>

\* The awaited request resolves without error: the rest of syncToCloud
\* (lines 239, 248-259, 262-264).
PushSucceeds ==
    \E p \in inflight :
        /\ p.phase = "applied"
        /\ inflight' = inflight \ {p}
        /\ isSyncing' = FALSE
        /\ lastSettled' = [seq |-> p.seq, data |-> p.data, ok |-> TRUE, at |-> clock]
        /\ IF p.track.cloudId = 0
           THEN /\ trackLog' = withCloudId(p.track, p.rid)
                /\ store' = saveSession(withCloudId(p.track, p.rid))
           ELSE UNCHANGED <<trackLog, store>>
        /\ UNCHANGED <<offline, cleared, exported, userId, projectId, geolocation, wakeLockApi, clock,
                       isTracking, currentPosition, error, hasRecoveredSession,
                       watchIdRef, watches, wakeLockRef,
                       syncTimeout, startsPending, stopsPending, clearsPending,
                       pushSeq, remote, events, appended, stopped>>

\* PushFails as it would be if a failed push armed the debounce timer again.
PushFailsRetrying ==
    \E p \in inflight :
        /\ p.phase = "sent"
        /\ inflight' = inflight \ {p}
        /\ isSyncing' = FALSE
        /\ lastSettled' = [seq |-> p.seq, data |-> p.data, ok |-> FALSE, at |-> clock]
        /\ syncTimeout' = <<p.track>>
        /\ UNCHANGED <<offline, cleared, exported, userId, projectId, geolocation, wakeLockApi, clock,
                       trackLog, isTracking, currentPosition, error,
                       hasRecoveredSession, watchIdRef, watches, wakeLockRef,
                       startsPending, stopsPending, clearsPending,
                       store, pushSeq, remote, events, appended, stopped>>

\* The awaited request resolves with an error; the row was not written
\* (lines 239, 248, 260-264).
PushFails ==
    \E p \in inflight :
        /\ p.phase = "sent"
        /\ inflight' = inflight \ {p}
        /\ isSyncing' = FALSE
        /\ lastSettled' = [seq |-> p.seq, data |-> p.data, ok |-> FALSE, at |-> clock]
        /\ UNCHANGED <<offline, cleared, exported, userId, projectId, geolocation, wakeLockApi, clock, trackLog,
                       isTracking, currentPosition, error, hasRecoveredSession,
                       watchIdRef, watches, wakeLockRef,
                       syncTimeout, startsPending, stopsPending, clearsPending,
                       store, pushSeq, remote, events, appended, stopped>>

\* debouncedSync as it would be if a pending timer were left to run instead of
\* being replaced.
debouncedSyncWithoutReset(track) ==
    IF syncTimeout # NULL THEN syncTimeout ELSE <<track>>

\* debouncedSync (lines 268-275): the timer syncTimeoutRef holds once the one
\* it held, if any, is cancelled and a new one is set for this snapshot.
debouncedSync(track) ==
    <<track>>

\* The debounce timer fires (lines 272-274).
TimerFires ==
    /\ event
    /\ syncTimeout # NULL
    /\ syncToCloud(syncTimeout[1], "timer")
    /\ syncTimeout' = NULL
    /\ UNCHANGED <<offline, cleared, exported, userId, projectId, geolocation, wakeLockApi, clock, trackLog,
                   isTracking, currentPosition, error, hasRecoveredSession,
                   watchIdRef, watches, wakeLockRef,
                   startsPending, stopsPending, clearsPending,
                   store, remote, appended, lastSettled, stopped>>

\* forceSync (lines 514-519).
ForceSync ==
    /\ event
    /\ trackLog # NULL
    /\ userId # 0
    /\ syncToCloud(trackLog, "force")
    /\ UNCHANGED <<offline, cleared, exported, userId, projectId, geolocation, wakeLockApi, clock, trackLog,
                   isTracking, currentPosition, error, hasRecoveredSession,
                   watchIdRef, watches, wakeLockRef, syncTimeout,
                   startsPending, stopsPending, clearsPending,
                   store, remote, appended, lastSettled, stopped>>

----------------------------------------------------------------------------
\* Track Recording Engine

\* The TrackLog startTracking creates (lines 351-357).
freshTrackLog(now, selectedProjectId) ==
    [id |-> now,
     startTime |-> now,
     endTime |-> 0,
     points |-> <<>>,
     photos |-> <<>>,
     cloudId |-> 0,
     projectId |-> IF selectedProjectId # 0 THEN selectedProjectId ELSE projectId]

\* { ...activeTrackLog, projectId: selectedProjectId } (line 363).
withProjectId(log, selectedProjectId) ==
    [log EXCEPT !.projectId = selectedProjectId]

\* The TrackPoint of a position fix taken at time now (lines 374-380).
trackPoint(now) ==
    [lat |-> 0, lng |-> now, timestamp |-> now]

\* { ...prev, points: [...prev.points, point] } (lines 386-389).
withPoint(prev, point) ==
    [prev EXCEPT !.points = Append(@, point)]

\* The marker addPhotoMarker makes of the caller's photo (lines 450-453).
photoMarker(now) ==
    [id |-> now, timestamp |-> now]

\* { ...prev, photos: [...prev.photos, newMarker] } (lines 457-460).
withPhoto(prev, newMarker) ==
    [prev EXCEPT !.photos = Append(@, newMarker)]

\* withEndTime as it would be if the stop forgot the stamp.
withEndTimeUnstamped(prev, now) ==
    prev

\* { ...prev, endTime: Date.now() } (lines 432-435).
withEndTime(prev, now) ==
    [prev EXCEPT !.endTime = now]

\* startsFresh as it would be if startTracking never took a log over.
startsFreshAlways(activeTrackLog) ==
    TRUE

\* Whether startTracking starts a new session (line 350).
startsFresh(activeTrackLog) ==
    activeTrackLog = NULL \/ activeTrackLog.endTime # 0

\* recovers as it would be if the length test were off by one.
recoversOffByOne(savedSession) ==
    savedSession # NULL /\ Len(savedSession.points) > 1

\* Whether the mount effect takes the stored session over (line 280).
recovers(savedSession) ==
    savedSession # NULL /\ Len(savedSession.points) > 0

\* The handle watchPosition returns: one that no live watch has.
newWatchId ==
    CHOOSE id \in 1..(MaxWatch + 1) : id \notin watches

\* Suspended calls, bounded together.
Suspended ==
    startsPending + stopsPending + clearsPending

\* startTracking from its await to its end (lines 370-412): the watch is
\* created and held in watchIdRef; the wake lock request succeeded or not.
subscribe(lockGranted) ==
    /\ Cardinality(watches) < MaxWatch
    /\ watchIdRef' = newWatchId
    /\ watches' = watches \cup {newWatchId}
    /\ wakeLockRef' = (wakeLockRef \/ lockGranted)
    /\ isTracking' = TRUE
    /\ hasRecoveredSession' = FALSE

\* StartTrackingUnsupported as it would be if the geolocation test came after
\* the creation of the log.
StartTrackingUnsupportedLate ==
    /\ event
    /\ ~geolocation
    /\ error' = "unsupported"
    /\ clock' = clock + 1
    /\ trackLog' = freshTrackLog(clock + 1, 0)
    /\ store' = saveSession(freshTrackLog(clock + 1, 0))
    /\ UNCHANGED <<offline, cleared, exported, userId, projectId, geolocation, wakeLockApi,
                   isTracking, currentPosition, hasRecoveredSession, isSyncing,
                   watchIdRef, watches, wakeLockRef, syncTimeout,
                   startsPending, stopsPending, clearsPending, inflight,
                   pushSeq, remote, appended, lastSettled, stopped>>

\* startTracking on a platform without geolocation (lines 341-344).
StartTrackingUnsupported ==
    /\ event
    /\ ~geolocation
    /\ error' = "unsupported"
    /\ UNCHANGED <<offline, cleared, exported, userId, projectId, geolocation, wakeLockApi, clock, trackLog,
                   isTracking, currentPosition, hasRecoveredSession, isSyncing,
                   watchIdRef, watches, wakeLockRef, syncTimeout,
                   startsPending, stopsPending, clearsPending, store, inflight,
                   pushSeq, remote, appended, lastSettled, stopped>>

\* startTracking(selectedProjectId) up to await requestWakeLock() (lines
\* 340-370), and through to its end where the platform has no wake lock API
\* (requestWakeLock then returns without suspending).
StartTracking ==
    \E selectedProjectId \in ProjectIds :
        /\ event
        /\ geolocation
        /\ error' = "null"
        /\ stopped' = FALSE
        /\ cleared' = FALSE
        /\ IF startsFresh(trackLog)
           THEN /\ clock' = clock + 1
                /\ trackLog' = freshTrackLog(clock + 1, selectedProjectId)
                /\ store' = saveSession(freshTrackLog(clock + 1, selectedProjectId))
                /\ appended' = [points |-> <<>>, photos |-> <<>>]
           ELSE IF selectedProjectId # 0
           THEN /\ trackLog' = withProjectId(trackLog, selectedProjectId)
                /\ store' = saveSession(withProjectId(trackLog, selectedProjectId))
                /\ UNCHANGED <<clock, appended>>
           ELSE UNCHANGED <<clock, trackLog, store, appended>>
        /\ IF wakeLockApi
           THEN /\ Suspended < MaxPending
                /\ startsPending' = startsPending + 1
                /\ UNCHANGED <<watchIdRef, watches, wakeLockRef,
                               isTracking, hasRecoveredSession>>
           ELSE /\ subscribe(FALSE)
                /\ UNCHANGED startsPending
        /\ UNCHANGED <<offline, exported, userId, projectId, geolocation, wakeLockApi,
                       currentPosition, isSyncing, syncTimeout, stopsPending,
                       clearsPending, inflight, pushSeq, remote,
                       lastSettled>>

\* requestWakeLock settles (lines 291-303) and startTracking runs to its end
\* (lines 372-412).
StartTrackingResumes ==
    \E lockGranted \in BOOLEAN :
        /\ startsPending > 0
        /\ startsPending' = startsPending - 1
        /\ subscribe(lockGranted)
        /\ UNCHANGED <<offline, cleared, exported, userId, projectId, geolocation, wakeLockApi, clock, trackLog,
                       currentPosition, error, isSyncing, syncTimeout,
                       stopsPending, clearsPending, store, inflight, pushSeq,
                       remote, events, appended, lastSettled, stopped>>

\* The success callback of a position watch (lines 373-400).
PositionSample ==
    \E w \in watches :
        /\ event
        /\ clock' = clock + 1
        /\ currentPosition' = trackPoint(clock + 1)
        /\ IF trackLog = NULL
           THEN UNCHANGED <<trackLog, store, syncTimeout, appended>>
           ELSE /\ trackLog' = withPoint(trackLog, trackPoint(clock + 1))
                /\ store' = saveSession(withPoint(trackLog, trackPoint(clock + 1)))
                /\ syncTimeout' = IF userId # 0
                                  THEN debouncedSync(withPoint(trackLog, trackPoint(clock + 1)))
                                  ELSE syncTimeout
                /\ appended' = IF appended = NULL THEN NULL
                               ELSE [appended EXCEPT
                                       !.points = Append(@, trackPoint(clock + 1))]
        /\ UNCHANGED <<offline, cleared, exported, userId, projectId, geolocation, wakeLockApi, isTracking,
                       error, hasRecoveredSession, isSyncing, watchIdRef, watches,
                       wakeLockRef, startsPending, stopsPending,
                       clearsPending, inflight, pushSeq, remote,
                       lastSettled, stopped>>

\* PositionError as it would be if the engine gave up on a position error.
PositionErrorStopping ==
    \E w \in watches :
        /\ event
        /\ error' = "gps"
        /\ watches' = watches \ {w}
        /\ watchIdRef' = 0
        /\ isTracking' = FALSE
        /\ UNCHANGED <<offline, cleared, exported, userId, projectId, geolocation,
                       wakeLockApi, clock, trackLog, currentPosition,
                       hasRecoveredSession, isSyncing, wakeLockRef, syncTimeout,
                       startsPending, stopsPending, clearsPending, store,
                       inflight, pushSeq, remote, appended, lastSettled, stopped>>

\* The error callback of a position watch (lines 401-403).
PositionError ==
    \E w \in watches :
        /\ event
        /\ error' = "gps"
        /\ UNCHANGED <<offline, cleared, exported, userId, projectId, geolocation,
                       wakeLockApi, clock, trackLog, isTracking, currentPosition,
                       hasRecoveredSession, isSyncing, watchIdRef, watches,
                       wakeLockRef, syncTimeout, startsPending, stopsPending,
                       clearsPending, store, inflight, pushSeq, remote, appended,
                       lastSettled, stopped>>

\* addPhotoMarker (lines 449-472).
addPhotoMarker ==
    /\ clock' = clock + 1
    /\ IF trackLog = NULL
       THEN UNCHANGED <<trackLog, store, inflight, pushSeq, isSyncing, appended>>
       ELSE /\ trackLog' = withPhoto(trackLog, photoMarker(clock + 1))
            /\ store' = saveSession(withPhoto(trackLog, photoMarker(clock + 1)))
            /\ syncToCloud(withPhoto(trackLog, photoMarker(clock + 1)), "photo")
            /\ appended' = IF appended = NULL THEN NULL
                           ELSE [appended EXCEPT
                                   !.photos = Append(@, photoMarker(clock + 1))]
    /\ UNCHANGED <<cleared, exported, userId, projectId, geolocation, wakeLockApi, isTracking,
                   currentPosition, error, hasRecoveredSession, watchIdRef,
                   watches, wakeLockRef, syncTimeout, startsPending,
                   stopsPending, clearsPending, remote, lastSettled, stopped>>

\* A call of addPhotoMarker by itself.
AddPhotoMarker ==
    /\ event
    /\ addPhotoMarker
    /\ UNCHANGED offline

\* stopTracking after await releaseWakeLock() (lines 424-446), followed, when
\* clearTrackLog called it, by the rest of clearTrackLog (lines 478-482).
\* saveSession(updated) and syncToCloud(updated) are side effects of the
\* updater handed to setTrackLog (lines 430-444): they run when React runs the
\* updater.  atRender: React runs it at the render that follows the turn, and
\* so after the saveSession(null) of clearTrackLog (line 481), instead of
\* before clearTrackLog continues.
stopRest(thenClear, atRender) ==
    /\ syncTimeout' = NULL
    /\ isTracking' = FALSE
    /\ stopped' = TRUE
    /\ cleared' = (cleared \/ thenClear)
    /\ IF trackLog # NULL
       THEN /\ clock' = clock + 1
            /\ syncToCloud(withEndTime(trackLog, clock + 1), "stop")
            /\ trackLog' = IF thenClear THEN NULL ELSE withEndTime(trackLog, clock + 1)
            /\ store' = IF thenClear /\ ~atRender THEN saveSession(NULL)
                        ELSE saveSession(withEndTime(trackLog, clock + 1))
       ELSE /\ trackLog' = NULL
            /\ store' = IF thenClear THEN saveSession(NULL) ELSE store
            /\ UNCHANGED <<clock, inflight, pushSeq, isSyncing>>
    /\ IF thenClear
       THEN /\ currentPosition' = NULL
            /\ hasRecoveredSession' = FALSE
            /\ appended' = NULL
       ELSE UNCHANGED <<currentPosition, hasRecoveredSession, appended>>

\* stopTracking up to await releaseWakeLock() (lines 415-422).
unsubscribe ==
    /\ watches' = IF watchIdRef # 0 THEN watches \ {watchIdRef} ELSE watches
    /\ watchIdRef' = 0

\* stopTracking (lines 415-447).  With no wake lock held releaseWakeLock
\* returns without suspending and the call runs to its end in one turn.
StopTracking ==
    /\ event
    /\ unsubscribe
    /\ IF wakeLockRef
       THEN /\ Suspended < MaxPending
            /\ stopsPending' = stopsPending + 1
            /\ UNCHANGED <<syncTimeout, isTracking, clock, inflight, pushSeq,
                           isSyncing, trackLog, store, currentPosition,
                           hasRecoveredSession, appended, stopped, cleared>>
       ELSE /\ stopRest(FALSE, FALSE)
            /\ UNCHANGED stopsPending
    /\ UNCHANGED <<offline, exported, userId, projectId, geolocation, wakeLockApi, error, wakeLockRef, startsPending, clearsPending, remote,
                   lastSettled>>

\* The wake lock release settles (lines 306-315; the ref is cleared unless
\* release() threw) and stopTracking runs to its end (lines 424-446).
StopTrackingResumes ==
    \E released \in BOOLEAN :
        /\ stopsPending > 0
        /\ stopsPending' = stopsPending - 1
        /\ wakeLockRef' = (wakeLockRef /\ ~released)
        /\ stopRest(FALSE, FALSE)
        /\ UNCHANGED <<offline, exported, userId, projectId, geolocation, wakeLockApi, error,
                       watchIdRef, watches, startsPending,
                       clearsPending, remote, events, lastSettled>>

\* clearTrackLog (lines 474-483).
ClearTrackLog ==
    /\ event
    /\ IF isTracking
       THEN /\ unsubscribe
            /\ IF wakeLockRef
               THEN /\ Suspended < MaxPending
                    /\ clearsPending' = clearsPending + 1
                    /\ UNCHANGED <<syncTimeout, isTracking, clock, inflight,
                                   pushSeq, isSyncing, trackLog, store,
                                   currentPosition, hasRecoveredSession, appended,
                                   stopped, cleared>>
               ELSE /\ stopRest(TRUE, FALSE)
                    /\ UNCHANGED clearsPending
       ELSE /\ trackLog' = NULL
            /\ currentPosition' = NULL
            /\ store' = saveSession(NULL)
            /\ hasRecoveredSession' = FALSE
            /\ appended' = NULL
            /\ cleared' = TRUE
            /\ UNCHANGED <<watches, watchIdRef, clearsPending, syncTimeout,
                           isTracking, clock, inflight, pushSeq, isSyncing, stopped>>
    /\ UNCHANGED <<offline, exported, userId, projectId, geolocation, wakeLockApi, error, wakeLockRef, startsPending, stopsPending, remote,
                   lastSettled>>

\* The wake lock release of a stopTracking that clearTrackLog awaits settles:
\* stopTracking runs to its end, then clearTrackLog does (lines 424-446, 478-482).
\* The turn is a promise reaction outside any browser event, so React renders
\* in a later task, after clearTrackLog has continued; the updater of line 430
\* runs then, unless React computed it eagerly when setTrackLog was called.
ClearTrackLogResumes ==
    \E released, atRender \in BOOLEAN :
        /\ clearsPending > 0
        /\ clearsPending' = clearsPending - 1
        /\ wakeLockRef' = (wakeLockRef /\ ~released)
        /\ stopRest(TRUE, atRender)
        /\ UNCHANGED <<offline, exported, userId, projectId, geolocation, wakeLockApi, error,
                       watchIdRef, watches, startsPending,
                       stopsPending, remote, events, lastSettled>>

----------------------------------------------------------------------------
\* Export Engine

\* The format argument of exportTrack; "undefined" is the call without one.
Formats == {"undefined", "geojson", "kml"}

\* [p.lng, p.lat, p.altitude ?? 0] of every point (lines 97, 151-153); the
\* device of the model reports no altitude.
coordinates(points) ==
    [i \in 1..Len(points) |-> <<points[i].lng, points[i].lat, 0>>]

\* exportToGeoJSON (lines 82-125): a line feature if the log has points, then
\* one point feature for each photo.
exportToGeoJSON(log) ==
    [type |-> "FeatureCollection",
     features |->
        (IF Len(log.points) > 0
         THEN <<[type |-> "track", id |-> log.id, time |-> log.startTime,
                 endTime |-> log.endTime, pointCount |-> Len(log.points),
                 coordinates |-> coordinates(log.points)]>>
         ELSE <<>>)
        \o [i \in 1..Len(log.photos) |->
               [type |-> "photo", id |-> log.photos[i].id,
                time |-> log.photos[i].timestamp,
                endTime |-> 0, pointCount |-> 0, coordinates |-> <<>>]]]

\* exportToKML (lines 128-190): a path placemark if the log has points, then
\* one placemark for each photo.
exportToKML(log) ==
    [kml |-> "Document",
     name |-> log.id,
     placemarks |->
        (IF Len(log.points) > 0
         THEN <<[name |-> "Track Path", time |-> log.startTime,
                 coordinates |-> coordinates(log.points)]>>
         ELSE <<>>)
        \o [i \in 1..Len(log.photos) |->
               [name |-> "Photo", time |-> log.photos[i].timestamp,
                coordinates |-> <<>>]]]

\* The file exportTrack hands to the browser (lines 491-503).
exportFile(log, format) ==
    [download |-> <<log.id, IF format = "kml" THEN "kml" ELSE "geojson">>,
     type |-> IF format = "kml" THEN "application/vnd.google-earth.kml+xml"
              ELSE "application/geo+json",
     content |-> IF format = "kml" THEN exportToKML(log) ELSE exportToGeoJSON(log)]

\* ExportTrack as it would be without the test of the number of points.
ExportTrackUnguarded ==
    \E format \in Formats :
        /\ event
        /\ exported' = IF trackLog = NULL
                       THEN [format |-> format, toast |-> "error", files |-> <<>>]
                       ELSE [format |-> format, toast |-> "success",
                             files |-> <<exportFile(trackLog, format)>>]
        /\ UNCHANGED <<offline, cleared, userId, projectId, geolocation,
                       wakeLockApi, clock, trackLog, isTracking, currentPosition,
                       error, hasRecoveredSession, isSyncing, watchIdRef, watches,
                       wakeLockRef, syncTimeout, startsPending, stopsPending,
                       clearsPending, store, inflight, pushSeq, remote, appended,
                       lastSettled, stopped>>

\* exportTrack (lines 485-506).
ExportTrack ==
    \E format \in Formats :
        /\ event
        /\ exported' = IF trackLog = NULL \/ Len(trackLog.points) = 0
                       THEN [format |-> format, toast |-> "error", files |-> <<>>]
                       ELSE [format |-> format, toast |-> "success",
                             files |-> <<exportFile(trackLog, format)>>]
        /\ UNCHANGED <<offline, cleared, userId, projectId, geolocation,
                       wakeLockApi, clock, trackLog, isTracking, currentPosition,
                       error, hasRecoveredSession, isSyncing, watchIdRef, watches,
                       wakeLockRef, syncTimeout, startsPending, stopsPending,
                       clearsPending, store, inflight, pushSeq, remote, appended,
                       lastSettled, stopped>>

----------------------------------------------------------------------------
\* The process is killed and the application opened again: a new engine is
\* constructed over the same local store (lines 193-203) and its mount effect
\* runs (lines 277-288).  Watches, timers, suspended calls and the promises of
\* the pushes in flight are gone with the old process.
Restart ==
    /\ event
    /\ trackLog' = IF recovers(loadSession) THEN loadSession ELSE NULL
    /\ hasRecoveredSession' = recovers(loadSession)
    /\ appended' = IF recovers(loadSession)
                   THEN [points |-> loadSession.points, photos |-> loadSession.photos]
                   ELSE NULL
    /\ isTracking' = FALSE
    /\ currentPosition' = NULL
    /\ error' = "null"
    /\ isSyncing' = FALSE
    /\ watchIdRef' = 0
    /\ watches' = {}
    /\ wakeLockRef' = FALSE
    /\ syncTimeout' = NULL
    /\ startsPending' = 0
    /\ stopsPending' = 0
    /\ clearsPending' = 0
    /\ inflight' = {}
    /\ lastSettled' = NULL
    /\ stopped' = FALSE
    /\ cleared' = FALSE
    /\ UNCHANGED <<offline, exported, userId, projectId, geolocation, wakeLockApi, clock, store, pushSeq, remote>>

Next ==
    \/ StartTrackingUnsupported
    \/ StartTracking
    \/ StartTrackingResumes
    \/ PositionSample
    \/ PositionError
    \/ AddPhotoMarker
    \/ StopTracking
    \/ StopTrackingResumes
    \/ ClearTrackLog
    \/ ClearTrackLogResumes
    \/ TimerFires
    \/ ForceSync
    \/ ExportTrack
    \/ ServerApply
    \/ PushSucceeds
    \/ PushFails
    \/ Restart

Spec == Init /\ [][Next]_vars

----------------------------------------------------------------------------
\* Offline Photo Queue

\* One more event of the photo queue, within the bound.
photoEvent ==
    /\ photoEvents < MaxPhotoEvents
    /\ photoEvents' = photoEvents + 1

\* db.getAll('pending-photos') (lines 161-164 of license.ts): the stored
\* photos in key order.
RECURSIVE getPendingPhotos(_)
getPendingPhotos(keys) ==
    IF keys = {} THEN <<>>
    ELSE LET first == CHOOSE k \in keys : \A other \in keys : k <= other
         IN <<first>> \o getPendingPhotos(keys \ {first})

\* The values of isOnline and isSyncing a syncPhotos created by the current
\* render sees (part_012, lines 7-8, 16-17).
renderClosure ==
    [isOnline |-> isOnline, isSyncing |-> photoSyncing, hook |-> effectClosure.hook]

\* Whether syncPhotos gets past its guard (part_012, line 17), for the
\* isOnline and isSyncing its closure holds.
startsDrain(closure) ==
    userId # 0 /\ closure.isOnline /\ ~closure.isSyncing

\* syncPhotos up to await getPendingPhotos() (part_012, lines 16-20).
syncPhotos(closure) ==
    IF startsDrain(closure)
    THEN /\ Cardinality(drains) < MaxDrains
         /\ drains' = drains \cup {[id |-> drainSeq + 1,
                                    hook |-> closure.hook,
                                    pc |-> "list",
                                    items |-> <<>>,
                                    i |-> 0,
                                    outcome |-> <<>>]}
         /\ drainSeq' = drainSeq + 1
    ELSE UNCHANGED <<drains, drainSeq>>

\* The hook is mounted by a page (part_012, lines 7-9 and the effect of lines
\* 85-111): its state is initialised, the effect keeps the syncPhotos of this
\* first render for its listeners and calls it if the browser is online.  The
\* syncPhotos calls of an earlier mount keep running; their state updates go
\* to the unmounted hook and are lost.
mounted(hook) ==
    /\ isOnline' = online
    /\ pendingCount' = Cardinality(pendingPhotos)
    /\ effectClosure' = [isOnline |-> online, isSyncing |-> FALSE, hook |-> hook]
    /\ photoSyncing' = (online /\ startsDrain([isOnline |-> online, isSyncing |-> FALSE]))
    /\ IF online
       THEN syncPhotos([isOnline |-> online, isSyncing |-> FALSE, hook |-> hook])
       ELSE UNCHANGED <<drains, drainSeq>>

\* A page that uses the hook is opened over a queue that is empty or holds one
\* photo captured offline earlier.
InitPhotos ==
    /\ userId \in UserIds
    /\ projectId = 0
    /\ geolocation = TRUE
    /\ wakeLockApi = FALSE
    /\ hookConstructed
    /\ online \in BOOLEAN
    /\ pendingPhotos \in {{}, {1}}
    /\ everQueued = pendingPhotos
    /\ captureSeq = Cardinality(pendingPhotos)
    /\ photoRecords = <<>>
    /\ lastCapture = NULL
    /\ lastDrain = NULL
    /\ photoEvents = 0
    /\ isOnline = online
    /\ pendingCount = Cardinality(pendingPhotos)
    /\ effectClosure = [isOnline |-> online, isSyncing |-> FALSE, hook |-> 1]
    /\ photoSyncing = (online /\ userId # 0)
    /\ drains = IF online /\ userId # 0
                THEN {[id |-> 1, hook |-> 1, pc |-> "list", items |-> <<>>,
                       i |-> 0, outcome |-> <<>>]}
                ELSE {}
    /\ drainSeq = IF online /\ userId # 0 THEN 1 ELSE 0

\* The user moves to another page that uses the hook.
Mount ==
    /\ photoEvent
    /\ mounted(effectClosure.hook + 1)
    /\ UNCHANGED <<gps, online, pendingPhotos, photoRecords, captureSeq,
                   lastCapture, everQueued, lastDrain>>

\* The browser goes online: handleOnline (part_012, lines 88-92).
HandleOnline ==
    /\ photoEvent
    /\ ~online
    /\ online' = TRUE
    /\ isOnline' = TRUE
    /\ photoSyncing' = (photoSyncing \/ startsDrain(effectClosure))
    /\ syncPhotos(effectClosure)
    /\ UNCHANGED <<gps, pendingCount, effectClosure, pendingPhotos, photoRecords,
                   captureSeq, lastCapture, everQueued, lastDrain>>

\* The browser goes offline: handleOffline (part_012, lines 94-97).
HandleOffline ==
    /\ photoEvent
    /\ online
    /\ online' = FALSE
    /\ isOnline' = FALSE
    /\ UNCHANGED <<gps, photoSyncing, pendingCount, effectClosure, pendingPhotos,
                   photoRecords, drains, drainSeq, captureSeq, lastCapture,
                   everQueued, lastDrain>>

\* The syncPhotos the hook returns is called (part_012, lines 16-20, 117).
SyncPhotos ==
    /\ photoEvent
    /\ photoSyncing' = (photoSyncing \/ startsDrain(renderClosure))
    /\ syncPhotos(renderClosure)
    /\ UNCHANGED <<gps, online, isOnline, pendingCount, effectClosure,
                   pendingPhotos, photoRecords, captureSeq, lastCapture,
                   everQueued, lastDrain>>

\* The drain d after the try block of its current item ended with result.
nextItem(d, result) ==
    IF d.i < Len(d.items)
    THEN [d EXCEPT !.outcome = Append(@, result), !.i = @ + 1, !.pc = "upload"]
    ELSE [d EXCEPT !.outcome = Append(@, result), !.pc = "count"]

\* setIsSyncing(false) of a syncPhotos call: it reaches the mounted hook only.
setIsSyncingFalse(d) ==
    photoSyncing' = IF d.hook = effectClosure.hook THEN FALSE ELSE photoSyncing

\* await getPendingPhotos() of syncPhotos resolves (part_012, lines 20-32).
DrainLists ==
    \E d \in drains :
        /\ d.pc = "list"
        /\ IF pendingPhotos = {}
           THEN /\ drains' = drains \ {d}
                /\ setIsSyncingFalse(d)
                /\ lastDrain' = [id |-> d.id, items |-> <<>>, outcome |-> <<>>]
           ELSE /\ drains' = (drains \ {d}) \cup
                       {[d EXCEPT !.items = getPendingPhotos(pendingPhotos),
                                  !.i = 1, !.pc = "upload"]}
                /\ UNCHANGED <<photoSyncing, lastDrain>>
        /\ UNCHANGED <<gps, online, isOnline, pendingCount, effectClosure,
                       pendingPhotos, photoRecords, drainSeq, captureSeq,
                       lastCapture, everQueued, photoEvents>>

\* The upload of the current item settles (part_012, lines 35-43).
DrainUploads ==
    \E d \in drains, uploaded \in BOOLEAN :
        /\ d.pc = "upload"
        /\ uploaded => online
        /\ drains' = (drains \ {d}) \cup
               {IF uploaded THEN [d EXCEPT !.pc = "insert"]
                ELSE nextItem(d, "upload failed")}
        /\ UNCHANGED <<gps, online, isOnline, photoSyncing, pendingCount,
                       effectClosure, pendingPhotos, photoRecords, drainSeq,
                       captureSeq, lastCapture, everQueued, lastDrain, photoEvents>>

\* The insert of the current item's record settles (part_012, lines 46-63).
DrainInserts ==
    \E d \in drains, inserted \in BOOLEAN :
        /\ d.pc = "insert"
        /\ inserted => online
        /\ photoRecords' = IF inserted
                           THEN Append(photoRecords, [photo |-> d.items[d.i], by |-> "drain"])
                           ELSE photoRecords
        /\ drains' = (drains \ {d}) \cup
               {IF inserted THEN [d EXCEPT !.pc = "delete"]
                ELSE nextItem(d, "insert failed")}
        /\ UNCHANGED <<gps, online, isOnline, photoSyncing, pendingCount,
                       effectClosure, pendingPhotos, drainSeq, captureSeq,
                       lastCapture, everQueued, lastDrain, photoEvents>>

\* deletePendingPhoto of the current item settles (part_012, lines 66-71;
\* license.ts, lines 166-169).
DrainDeletes ==
    \E d \in drains, deleted \in BOOLEAN :
        /\ d.pc = "delete"
        /\ pendingPhotos' = IF deleted THEN pendingPhotos \ {d.items[d.i]}
                            ELSE pendingPhotos
        /\ drains' = (drains \ {d}) \cup
               {nextItem(d, IF deleted THEN "synced" ELSE "delete failed")}
        /\ UNCHANGED <<gps, online, isOnline, photoSyncing, pendingCount,
                       effectClosure, photoRecords, drainSeq, captureSeq,
                       lastCapture, everQueued, lastDrain, photoEvents>>

\* The end of syncPhotos: checkPendingCount and setIsSyncing(false)
\* (part_012, lines 74-82).
DrainCounts ==
    \E d \in drains :
        /\ d.pc = "count"
        /\ drains' = drains \ {d}
        /\ pendingCount' = IF d.hook = effectClosure.hook
                           THEN Cardinality(pendingPhotos) ELSE pendingCount
        /\ setIsSyncingFalse(d)
        /\ lastDrain' = [id |-> d.id, items |-> d.items, outcome |-> d.outcome]
        /\ UNCHANGED <<gps, online, isOnline, effectClosure, pendingPhotos,
                       photoRecords, drainSeq, captureSeq, lastCapture,
                       everQueued, photoEvents>>

\* What a capture can end with once its image is taken.
CaptureResults == {"upload failed", "insert failed", "saved"}

\* captureAndSave of the page Capture with valid input (Capture.tsx, lines
\* 410-537): offline the photo goes to the local queue, online it is uploaded
\* and its record inserted.
CaptureAndSave ==
    \E result \in CaptureResults :
        /\ photoEvent
        /\ userId # 0
        /\ captureSeq < MaxPhotos
        /\ captureSeq' = captureSeq + 1
        /\ IF ~isOnline
           THEN /\ pendingPhotos' = pendingPhotos \cup {captureSeq + 1}
                /\ everQueued' = everQueued \cup {captureSeq + 1}
                /\ pendingCount' = Cardinality(pendingPhotos \cup {captureSeq + 1})
                /\ lastCapture' = [photo |-> captureSeq + 1, online |-> online,
                                   uploads |-> 0, result |-> "queued"]
                /\ UNCHANGED photoRecords
           ELSE /\ result = "saved" => online
                /\ photoRecords' = IF result = "saved"
                                   THEN Append(photoRecords,
                                               [photo |-> captureSeq + 1, by |-> "capture"])
                                   ELSE photoRecords
                /\ lastCapture' = [photo |-> captureSeq + 1, online |-> online,
                                   uploads |-> 1, result |-> result]
                /\ UNCHANGED <<pendingPhotos, everQueued, pendingCount>>
        /\ UNCHANGED <<gps, online, isOnline, photoSyncing, effectClosure, drains,
                       drainSeq, lastDrain>>

\* capturePhoto of the page Tracker with valid input (Tracker.tsx, lines
\* 95-184): the photo is uploaded and its record inserted, then a marker is
\* added to the track log.
CapturePhoto ==
    \E result \in CaptureResults :
        /\ photoEvent
        /\ userId # 0
        /\ captureSeq < MaxPhotos
        /\ captureSeq' = captureSeq + 1
        /\ result = "saved" => online
        /\ photoRecords' = IF result = "saved"
                           THEN Append(photoRecords,
                                       [photo |-> captureSeq + 1, by |-> "capture"])
                           ELSE photoRecords
        /\ lastCapture' = [photo |-> captureSeq + 1, online |-> online,
                           uploads |-> 1, result |-> result]
        /\ IF result = "saved"
           THEN addPhotoMarker /\ UNCHANGED events
           ELSE UNCHANGED gps
        /\ UNCHANGED <<online, isOnline, photoSyncing, pendingCount, effectClosure,
                       pendingPhotos, drains, drainSeq, everQueued, lastDrain>>

NextPhotos ==
    \/ Mount
    \/ HandleOnline
    \/ HandleOffline
    \/ SyncPhotos
    \/ DrainLists
    \/ DrainUploads
    \/ DrainInserts
    \/ DrainDeletes
    \/ DrainCounts
    \/ CaptureAndSave
    \/ CapturePhoto

SpecPhotos == InitPhotos /\ [][NextPhotos]_vars

----------------------------------------------------------------------------
\* Properties

\* A push settles: its awaited request resolves, with or without error.
PushSettles == PushSucceeds \/ PushFails

\* The same TrackLog before and after a step.
SameLog == trackLog # NULL /\ trackLog' # NULL /\ trackLog'.id = trackLog.id

\* The same TrackLog in the local store before and after a step.
SameStoredLog == store # NULL /\ store' # NULL /\ store'.id = store.id

\* A member of a stored document, undefined (0) when absent.
Stored(doc, key) == IF key \in DOMAIN doc THEN doc[key] ELSE 0

\* The rows of the remote table that belong to a track.
RowsOf(table, trackId) == {i \in DOMAIN table : table[i].data.track_id = trackId}

\* C1: under every interleaving of position samples, addPhotoMarker calls and
\* push completions the active log's points and photos are exactly the samples
\* and markers appended so far, in append order, none duplicated or dropped,
\* and from one state of a log to the next the old points and photos are a
\* prefix of the new ones.
C1_PointsAndPhotosAreTheAppendSequence ==
    [][/\ (trackLog' # NULL /\ appended' # NULL) =>
            /\ trackLog'.points = appended'.points
            /\ trackLog'.photos = appended'.photos
       /\ SameLog =>
            /\ IsPrefix(trackLog.points, trackLog'.points)
            /\ IsPrefix(trackLog.photos, trackLog'.photos)]_vars

\* C2: for one track id at most one create (insert) is ever performed against
\* the remote store, and every push issued once the log carries a remote id is
\* an update addressed by that id.
C2_AtMostOneCreatePerTrack ==
    /\ \A i, j \in DOMAIN remote :
          remote[i].data.track_id = remote[j].data.track_id => i = j
    /\ \A p \in inflight :
          p.assigned # 0 => p.track.cloudId = p.assigned

\* C3: once a TrackLog has a remote identifier (cloudId), that identifier keeps
\* its value in every later state of the log, in memory and in the local store.
C3_CloudIdNeverChanges ==
    [][/\ (SameLog /\ trackLog.cloudId # 0) => trackLog'.cloudId = trackLog.cloudId
       /\ (SameStoredLog /\ Stored(store, "cloudId") # 0) =>
              Stored(store', "cloudId") = Stored(store, "cloudId")]_vars

\* C4: once stopTracking has set endTime on a TrackLog, every later state of
\* that log, in memory and in the local store, still has endTime set.
C4_EndTimeNeverUnset ==
    [][/\ (SameLog /\ trackLog.endTime # 0) => trackLog'.endTime # 0
       /\ (SameStoredLog /\ Stored(store, "endTime") # 0) =>
              Stored(store', "endTime") # 0]_vars

\* C5: when a push settles, the only change made to the active TrackLog is the
\* setting of its remote identifier: id, startTime, endTime, projectId, points
\* and photos are the same right after as right before, in memory and in the
\* local store (an absent log stays absent).
C5_CompletionOnlySetsCloudId ==
    [][PushSettles =>
         /\ (trackLog = NULL) = (trackLog' = NULL)
         /\ trackLog # NULL =>
               \A k \in LogKeys \ {"cloudId"} : trackLog'[k] = trackLog[k]
         /\ (store = NULL) = (store' = NULL)
         /\ store # NULL =>
               \A k \in LogKeys \ {"cloudId"} : Stored(store', k) = Stored(store, k)]_vars

\* The server runs the request of push p in this step.
AppliedNow(p) ==
    /\ p.phase = "sent"
    /\ p \notin inflight'
    /\ \E q \in inflight' : q.seq = p.seq /\ q.phase = "applied"

\* The content of every row of a table.
Content(table) == [i \in DOMAIN table |-> table[i].data]

\* C6: pushing the same TrackLog twice in a row with no local mutation in
\* between, the second push issued after the first has completed (the first
\* having succeeded), the second push leaves the content of the remote record
\* unchanged and leaves exactly one remote record for the track.
C6_SecondPushChangesNothing ==
    [][\A p \in inflight :
          (p.repeat /\ AppliedNow(p)) =>
             /\ Content(remote') = Content(remote)
             /\ Cardinality(RowsOf(remote', p.data.track_id)) = 1]_vars

\* stopTracking runs to its end in this step (not as part of clearTrackLog).
StopCompletes ==
    \/ StopTracking /\ stopsPending' = stopsPending
    \/ StopTrackingResumes

Settled(r) == \A p \in inflight : p.rid # r

\* C8: of two pushes in flight at once that target the same remote record,
\* once both have completed the record holds the snapshot of the push that was
\* issued later, whichever reached the server first.
C8_LaterPushSupersedes ==
    \A r \in DOMAIN remote :
        Settled(r) => remote[r].data = remote[r].latest.data

\* The local store holds a session with no end time and at least one point.
StoredOpenSession ==
    /\ store # NULL
    /\ Stored(store, "endTime") = 0
    /\ Len(store.points) > 0

\* C9: a fresh engine constructed over a local store that holds a TrackLog with
\* no end time and at least one point has that log as its active log (the same
\* points and photos), the recovered flag true, the recording status false and
\* no geolocation subscription until startTracking is called.
C9_RecoveryRoundTrip ==
    [][/\ (Restart /\ StoredOpenSession) =>
             /\ trackLog' # NULL
             /\ trackLog'.id = store.id
             /\ trackLog'.points = store.points
             /\ trackLog'.photos = store.photos
             /\ hasRecoveredSession'
             /\ ~isTracking'
             /\ watches' = {}
       /\ hasRecoveredSession' => (~isTracking' /\ watches' = {} /\ watchIdRef' = 0)]_vars

\* A session with a point and a photo has been recovered.
C9_Witness ==
    /\ hasRecoveredSession
    /\ trackLog # NULL
    /\ trackLog.endTime = 0
    /\ Len(trackLog.points) = 1
    /\ Len(trackLog.photos) = 1
    /\ store # NULL
    /\ trackLog.points = store.points

\* C10: on construction the stored TrackLog becomes the active log and the
\* recovered flag is set if and only if the stored log has no end timestamp and
\* at least one point.
C10_RecoversOnlyOpenSessions ==
    [][Restart =>
         /\ hasRecoveredSession' = StoredOpenSession
         /\ (trackLog' # NULL) = StoredOpenSession]_vars

\* C11: after stopTracking has completed and until the next startTracking, no
\* geolocation subscription is active, no position sample is appended to the
\* log and no debounce timer is pending (so no debounced push fires).
C11_NothingRunsAfterStop ==
    [][/\ stopped' => (watches' = {} /\ syncTimeout' = NULL)
       /\ (stopped /\ stopped' /\ SameLog) =>
              Len(trackLog'.points) <= Len(trackLog.points)]_vars

\* C12: addPhotoMarker on an active log issues an immediate push that carries
\* the new marker, and cancels any pending debounce timer first: right after
\* addPhotoMarker no debounce timer is pending.
C12_PhotoPushesAndCancelsTimer ==
    [][(AddPhotoMarker /\ trackLog # NULL) =>
         /\ syncTimeout' = NULL
         /\ userId # 0 =>
               \E p \in inflight' \ inflight :
                   /\ p.by = "photo"
                   /\ p.data.photos = trackLog'.photos
                   /\ p.data.photos[Len(p.data.photos)] = photoMarker(clock')]_vars

\* clearTrackLog runs to its end in this step.
ClearCompletes ==
    \/ ClearTrackLog /\ clearsPending' = clearsPending
    \/ ClearTrackLogResumes

\* C13: after clearTrackLog completes, whether or not recording was active, the
\* active log is absent, the current position is absent, the recovered flag is
\* false, recording status is false and the local session store is empty.
C13_ClearWipesEverything ==
    [][ClearCompletes =>
         /\ trackLog' = NULL
         /\ currentPosition' = NULL
         /\ ~hasRecoveredSession'
         /\ ~isTracking'
         /\ store' = NULL]_vars

\* C14: when a push fails, the active log, the local store and the recording
\* status are left unchanged, the failure schedules no retry (no push and no
\* timer), the sync-in-progress flag returns to false, and a later sample is
\* still appended, stored and scheduled for push.
C14_FailedPushIsDropped ==
    [][/\ PushFails =>
            /\ trackLog' = trackLog
            /\ store' = store
            /\ isTracking' = isTracking
            /\ syncTimeout' = syncTimeout
            /\ pushSeq' = pushSeq
            /\ inflight' \subseteq inflight
            /\ ~isSyncing'
       /\ (PositionSample /\ trackLog # NULL /\ lastSettled # NULL /\ ~lastSettled.ok) =>
            /\ trackLog'.points = Append(trackLog.points, trackPoint(clock'))
            /\ store' # NULL
            /\ store'.points = trackLog'.points
            /\ userId # 0 => syncTimeout' = <<trackLog'>>]_vars

\* A sample taken after a push failed is in the log and waits for its push.
C14_Witness ==
    /\ lastSettled # NULL
    /\ ~lastSettled.ok
    /\ ~isSyncing
    /\ trackLog # NULL
    /\ currentPosition # NULL
    /\ currentPosition.timestamp > lastSettled.at
    /\ trackLog.points[Len(trackLog.points)] = currentPosition
    /\ syncTimeout = <<trackLog>>

\* The remote photo records made for a photo.
RecordsOf(records, photo) == {i \in DOMAIN records : records[i].photo = photo}

\* Both the upload and the insert of the i-th item of a finished pass succeeded.
BothSucceeded(pass, i) == pass.outcome[i] \notin {"upload failed", "insert failed"}

\* C15: whenever the connectivity signal goes online while a user is signed in
\* and the pending queue is not empty, a drain pass starts, whatever the
\* connectivity was when the engine was mounted; and if every upload and insert
\* of a pass succeeds, its items are out of the queue when the pass ends and
\* one remote photo record exists for each.
C15_OnlineTransitionDrains ==
    [][/\ (HandleOnline /\ userId # 0 /\ pendingPhotos # {} /\ drains = {}) =>
             \E d \in drains' : d.pc = "list"
       /\ (DrainCounts /\ \A i \in 1..Len(lastDrain'.items) : BothSucceeded(lastDrain', i)) =>
             \A i \in 1..Len(lastDrain'.items) :
                 /\ lastDrain'.items[i] \notin pendingPhotos'
                 /\ Cardinality(RecordsOf(photoRecords', lastDrain'.items[i])) = 1]_vars

\* C16: at no time are two drain passes of the offline photo queue running at
\* once, under any interleaving of the mount-time drain, online transitions and
\* manual syncPhotos calls.
C16_OneDrainAtATime ==
    Cardinality(drains) <= 1

\* C17: for every OfflinePendingPhoto at most one remote photo record is ever
\* inserted, and exactly one has been inserted once the item is no longer in
\* the queue.
C17_UploadedExactlyOnce ==
    \A photo \in everQueued :
        /\ Cardinality(RecordsOf(photoRecords, photo)) <= 1
        /\ photo \notin pendingPhotos =>
              Cardinality(RecordsOf(photoRecords, photo)) = 1

\* C18: in one drain pass every item pending at its start is attempted exactly
\* once; an item is removed from the queue in that pass if and only if both its
\* upload and its insert succeeded; an item whose upload or insert failed is
\* still in the queue when the pass ends (and so is attempted by the next pass).
C18_PassRemovesExactlyTheSynced ==
    [][/\ DrainLists =>
             \A d \in drains' \ drains :
                 /\ Len(d.items) = Cardinality(pendingPhotos)
                 /\ \A photo \in pendingPhotos : \E i \in 1..Len(d.items) : d.items[i] = photo
       /\ DrainCounts =>
             /\ Len(lastDrain'.outcome) = Len(lastDrain'.items)
             /\ \A i \in 1..Len(lastDrain'.items) :
                   /\ (lastDrain'.outcome[i] = "synced") <=> BothSucceeded(lastDrain', i)
                   /\ ~BothSucceeded(lastDrain', i) =>
                          lastDrain'.items[i] \in pendingPhotos']_vars

\* C19: every capture that passes validation ends either as one remote photo
\* record or as exactly one entry of the local queue, whatever the connectivity
\* and whether or not the upload or insert succeeds; a capture made while
\* offline adds exactly one queue entry and performs no upload.
C19_CaptureIsNeverLost ==
    [][captureSeq' = captureSeq + 1 =>
         /\ \/ /\ Cardinality(RecordsOf(photoRecords', lastCapture'.photo)) = 1
               /\ lastCapture'.photo \notin pendingPhotos'
            \/ /\ Cardinality(RecordsOf(photoRecords', lastCapture'.photo)) = 0
               /\ lastCapture'.photo \in pendingPhotos'
         /\ ~lastCapture'.online =>
               /\ lastCapture'.photo \in pendingPhotos'
               /\ Cardinality(pendingPhotos') = Cardinality(pendingPhotos) + 1
               /\ lastCapture'.uploads = 0]_vars

\* C20: startTracking on a platform without a geolocation API sets the error
\* and changes nothing else: no TrackLog is created or modified, nothing is
\* written to the local store, no wake lock is requested, no subscription is
\* made and the recording status stays false.
C20_UnsupportedStartOnlySetsError ==
    [][/\ StartTrackingUnsupported =>
            /\ error' = "unsupported"
            /\ trackLog' = trackLog
            /\ store' = store
            /\ wakeLockRef' = wakeLockRef
            /\ startsPending' = startsPending
            /\ watches' = watches
            /\ watchIdRef' = watchIdRef
            /\ ~isTracking'
       /\ ~geolocation' =>
            /\ trackLog' = NULL
            /\ store' = NULL
            /\ watches' = {}
            /\ ~wakeLockRef'
            /\ startsPending' = 0
            /\ ~isTracking']_vars

\* startTracking has been called twice on a platform without geolocation.
C20_Witness ==
    /\ ~geolocation
    /\ error = "unsupported"
    /\ events = 2
    /\ clock = 0
    /\ trackLog = NULL
    /\ store = NULL

\* C21: a position-stream error while recording only sets the last-error
\* value: the recording status stays true, the geolocation subscription stays
\* active, and the active log and the local store are unchanged; no sequence of
\* such errors ever stops recording, and a sample that follows an error is
\* appended as any other.
C21_PositionErrorOnlySetsError ==
    [][/\ PositionError =>
            /\ error' = "gps"
            /\ isTracking' = isTracking
            /\ watches' = watches
            /\ watchIdRef' = watchIdRef
            /\ trackLog' = trackLog
            /\ store' = store
            /\ syncTimeout' = syncTimeout
            /\ inflight' = inflight
            /\ wakeLockRef' = wakeLockRef
       /\ (PositionSample /\ error = "gps" /\ trackLog # NULL) =>
            /\ trackLog'.points = Append(trackLog.points, trackPoint(clock'))
            /\ isTracking' = isTracking]_vars

\* Recording goes on after two position errors: the sample that followed them
\* is in the log and in the store.
C21_Witness ==
    /\ error = "gps"
    /\ events = 4
    /\ isTracking
    /\ watchIdRef \in watches
    /\ trackLog # NULL
    /\ trackLog.endTime = 0
    /\ Len(trackLog.points) = 1
    /\ store # NULL
    /\ store.points = trackLog.points

\* C22: exportTrack with no active log or with a log of zero points reports
\* the nothing-to-export condition and produces no file; with at least one
\* point it produces exactly one document, in the requested format (GeoJSON
\* when none is given), whose path holds every point of the log.
C22_ExportNeedsAPoint ==
    [][ExportTrack =>
         /\ trackLog' = trackLog
         /\ IF trackLog = NULL \/ Len(trackLog.points) = 0
            THEN /\ exported'.toast = "error"
                 /\ exported'.files = <<>>
            ELSE /\ exported'.toast = "success"
                 /\ Len(exported'.files) = 1
                 /\ LET file == exported'.files[1]
                    IN IF exported'.format = "kml"
                       THEN /\ file.download = <<trackLog.id, "kml">>
                            /\ file.content.kml = "Document"
                            /\ Len(file.content.placemarks) = 1 + Len(trackLog.photos)
                            /\ Len(file.content.placemarks[1].coordinates)
                                  = Len(trackLog.points)
                       ELSE /\ file.download = <<trackLog.id, "geojson">>
                            /\ file.content.type = "FeatureCollection"
                            /\ Len(file.content.features) = 1 + Len(trackLog.photos)
                            /\ file.content.features[1].type = "track"
                            /\ Len(file.content.features[1].coordinates)
                                  = Len(trackLog.points)]_vars

\* A log with one point and one photo has been exported as KML.
C22_Witness ==
    /\ exported # NULL
    /\ exported.format = "kml"
    /\ Len(exported.files) = 1
    /\ trackLog # NULL
    /\ Len(trackLog.points) = 1
    /\ Len(trackLog.photos) = 1
    /\ exported.files[1] = exportFile(trackLog, "kml")

\* The pushes issued in this step.
Issued == {p \in inflight' : p.seq > pushSeq}

\* C23: whenever a push is issued (by the debounce timer, stopTracking,
\* addPhotoMarker or forceSync), the points and photos of its payload are the
\* points and photos of the active log at that moment, and its point_count and
\* photo_count are their lengths: a push never carries a snapshot older than
\* the log's current state.
C23_PushCarriesCurrentSnapshot ==
    [][\A p \in Issued :
          /\ p.data.point_count = Len(p.data.points)
          /\ p.data.photo_count = Len(p.data.photos)
          /\ LET log == IF p.by = "stop" THEN trackLog ELSE trackLog'
             IN log # NULL =>
                   /\ p.data.points = log.points
                   /\ p.data.photos = log.photos]_vars

C26_AtMostOneSubscription ==
    [][/\ Cardinality(watches') <= 1
       /\ StopCompletes => watches' = {}]_vars

\* C27: a push that completes after clearTrackLog has finished does not bring
\* the log back: from the end of clearTrackLog until the next startTracking the
\* active log stays absent and the local session store stays empty, whatever
\* pushes were in flight when the clear happened.
C27_ClearedLogStaysCleared ==
    [][(cleared /\ cleared') =>
         /\ trackLog = NULL => trackLog' = NULL
         /\ store = NULL => store' = NULL]_vars

\* C28: whenever the recording status is true, an active TrackLog exists and
\* it has no end time, under every interleaving of startTracking (which waits
\* for the wake lock before it subscribes), stopTracking and clearTrackLog.
C28_RecordingHasAnOpenLog ==
    isTracking => (trackLog # NULL /\ trackLog.endTime = 0)

\* C29: after every operation that changes the active log (startTracking, a
\* position sample, addPhotoMarker, stopTracking, the assignment of the remote
\* id, clearTrackLog), local storage writes succeeding, the TrackLog held in
\* the local session store equals the active log in memory, and the store is
\* empty when the operation left no active log.
C29_StoreMirrorsActiveLog ==
    [][(trackLog' # trackLog /\ ~Restart) =>
         IF trackLog' = NULL
         THEN store' = NULL
         ELSE store' # NULL /\ JsonParse(store') = trackLog']_vars

\* C30: the sync-in-progress flag of the Cloud Sync Engine is true exactly
\* while at least one push is in flight: it is never false while a push issued
\* earlier has not completed (also when two pushes overlap and the first one
\* finishes), and it is false once every push has completed.
C30_SyncFlagMeansPushInFlight ==
    isSyncing <=> (inflight # {})

====
